---- MODULE Spec2Model ----
(***************************************************************************)
(* A model of app2.py: the source classifier, the JSON-lines report store  *)
(* (_append_jsonl / _read_reports) and the POST /trigger pipeline.         *)
(*                                                                         *)
(* Python strings are sequences of one-character strings, so that          *)
(* lower(), substring search, strip(), json.dumps and json.loads are       *)
(* computed character by character.  Python values are tagged tuples:      *)
(*   <<"str", chars>>   <<"dict", <<k1, v1>>, ...>> (insertion order)      *)
(*   <<"None">>         <<"bool", b>>          <<"list", items>>           *)
(***************************************************************************)
EXTENDS Integers, Sequences, FiniteSets, TLC

VARIABLES
    url_in,          \* the argument of _detect_source
    source_out,      \* what _detect_source returned
    file_exists,     \* ./data/reports.jsonl exists
    file_text,       \* the text it holds (<<>> when it does not exist)
    log,             \* history: what each line of the file is, oldest first
    last_op,         \* history: the last store operation and what it returned
    has_key,         \* GROQ_API_KEY is set in the environment
    running,         \* the request whose handler holds the event loop (0: none)
    clock,           \* the time datetime.utcnow() reads
    pc,              \* per request: the handler's position
    req,             \* per request: the Trigger body {url, note}
    source,          \* per request: local `source`
    post_text,       \* per request: local `post_text`
    query,           \* per request: local `query`
    compound_answer, \* per request: local `compound_answer`
    returned,        \* per request: the object the handler returned
    stages,          \* history, per request: the stages run, in order
    invoked,         \* history, per request: the extractor functions called
    last_call,       \* history: the last external call, <<stage, request, what it did>>
    run_in,          \* what agent.run() did in _extract_x_post_with_browser_use
    text_out         \* what _extract_x_post_with_browser_use returned

vars == <<url_in, source_out, file_exists, file_text, log, last_op, has_key,
          running, clock, pc, req, source, post_text, query, compound_answer,
          returned, stages, invoked, last_call, run_in, text_out>>

classifier_vars == <<url_in, source_out>>
extractor_vars == <<run_in, text_out>>
store_vars == <<file_exists, file_text, log, last_op>>
pipeline_vars == <<has_key, running, clock, pc, req, source, post_text, query,
                   compound_answer, returned, stages, invoked, last_call>>

(***************************************************************************)
(* Python values and strings                                               *)
(***************************************************************************)
None == <<"None">>
Str(s) == <<"str", s>>
Dict(pairs) == <<"dict", pairs>>
Bool(b) == <<"bool", b>>
List(items) == <<"list", items>>
EmptyStr == Str(<<>>)

IsStr(v) == v[1] = "str"
IsDict(v) == v[1] = "dict"

\* Python truthiness, as used by `x or y` and `if not x`.
Truthy(v) ==
    CASE v[1] = "None" -> FALSE
      [] v[1] = "str"  -> v[2] # <<>>
      [] v[1] = "dict" -> v[2] # <<>>
      [] v[1] = "list" -> v[2] # <<>>
      [] v[1] = "bool" -> v[2]
      [] OTHER -> TRUE

\* a or b
Or(a, b) == IF Truthy(a) THEN a ELSE b

UpperCase == <<"A","B","C","D","E","F","G","H","I","J","K","L","M",
               "N","O","P","Q","R","S","T","U","V","W","X","Y","Z">>
LowerCase == <<"a","b","c","d","e","f","g","h","i","j","k","l","m",
               "n","o","p","q","r","s","t","u","v","w","x","y","z">>

LowerChar(c) ==
    IF \E i \in 1..26 : UpperCase[i] = c
    THEN LowerCase[CHOOSE i \in 1..26 : UpperCase[i] = c]
    ELSE c

\* str.lower()
Lower(s) == [i \in 1..Len(s) |-> LowerChar(s[i])]

\* `needle in hay` for strings
Contains(needle, hay) ==
    \E i \in 1..(Len(hay) - Len(needle) + 1) :
        SubSeq(hay, i, i + Len(needle) - 1) = needle

Whitespace == {" ", "\t", "\n", "\r", "\f"}

RECURSIVE LStrip(_)
LStrip(s) == IF s # <<>> /\ Head(s) \in Whitespace THEN LStrip(Tail(s)) ELSE s

RECURSIVE RStrip(_)
RStrip(s) ==
    IF s # <<>> /\ s[Len(s)] \in Whitespace
    THEN RStrip(SubSeq(s, 1, Len(s) - 1))
    ELSE s

\* str.strip()
Strip(s) == RStrip(LStrip(s))

RECURSIVE Reverse(_)
\* list.reverse()
Reverse(s) == IF s = <<>> THEN <<>> ELSE Append(Reverse(Tail(s)), Head(s))

\* items[:limit], Python slice semantics (a negative limit counts from the end)
SliceTo(items, limit) ==
    LET n == Len(items)
        stop == IF limit < 0 THEN (IF n + limit < 0 THEN 0 ELSE n + limit)
                ELSE (IF limit > n THEN n ELSE limit)
    IN  SubSeq(items, 1, stop)

(***************************************************************************)
(* json.dumps(data, ensure_ascii=False)                                    *)
(***************************************************************************)
\* json.encoder ESCAPE_DCT, for the characters of the model
EscapeChar(c) ==
    CASE c = "\"" -> <<"\\", "\"">>
      [] c = "\\" -> <<"\\", "\\">>
      [] c = "\n" -> <<"\\", "n">>
      [] c = "\r" -> <<"\\", "r">>
      [] c = "\t" -> <<"\\", "t">>
      [] c = "\f" -> <<"\\", "f">>
      [] OTHER -> <<c>>

RECURSIVE EscapeString(_)
EscapeString(s) ==
    IF s = <<>> THEN <<>> ELSE EscapeChar(Head(s)) \o EscapeString(Tail(s))

EncodeString(s) == <<"\"">> \o EscapeString(s) \o <<"\"">>

RECURSIVE JsonDumps(_)
RECURSIVE DumpsItems(_)
\* the items of a dict, joined by ", " with ": " between key and value
DumpsItems(pairs) ==
    IF pairs = <<>> THEN <<>>
    ELSE EncodeString(pairs[1][1]) \o <<":", " ">> \o JsonDumps(pairs[1][2])
         \o (IF Len(pairs) > 1 THEN <<",", " ">> \o DumpsItems(Tail(pairs))
             ELSE <<>>)

JsonDumps(v) ==
    CASE v[1] = "str"  -> EncodeString(v[2])
      [] v[1] = "dict" -> <<"{">> \o DumpsItems(v[2]) \o <<"}">>
      [] v[1] = "None" -> <<"n","u","l","l">>
      [] v[1] = "bool" -> IF v[2] THEN <<"t","r","u","e">>
                          ELSE <<"f","a","l","s","e">>

(***************************************************************************)
(* json.loads(s): a parse result is <<ok, value, next index>>; ok = FALSE  *)
(* is the JSONDecodeError.  Numbers and arrays are not modelled: no text   *)
(* of the model has a digit, "-" or "[" where a value starts.              *)
(***************************************************************************)
JsonWhitespace == {" ", "\t", "\n", "\r"}
ControlChars == {"\t", "\n", "\r", "\f"}
ParseError == <<FALSE, None, 0>>

RECURSIVE SkipWs(_, _)
SkipWs(s, i) ==
    IF i <= Len(s) /\ s[i] \in JsonWhitespace THEN SkipWs(s, i + 1) ELSE i

\* json.decoder BACKSLASH
Unescape(e) ==
    CASE e = "\"" -> "\""
      [] e = "\\" -> "\\"
      [] e = "/"  -> "/"
      [] e = "n"  -> "\n"
      [] e = "r"  -> "\r"
      [] e = "t"  -> "\t"
      [] e = "f"  -> "\f"
      [] OTHER -> "?"

EscapeLetters == {"\"", "\\", "/", "n", "r", "t", "f"}

RECURSIVE ScanString(_, _, _)
\* the body of a string literal from index j on, acc the characters so far
ScanString(s, j, acc) ==
    IF j > Len(s) THEN ParseError
    ELSE IF s[j] = "\"" THEN <<TRUE, Str(acc), j + 1>>
    ELSE IF s[j] = "\\" THEN
        IF j + 1 <= Len(s) /\ s[j + 1] \in EscapeLetters
        THEN ScanString(s, j + 2, Append(acc, Unescape(s[j + 1])))
        ELSE ParseError
    ELSE IF s[j] \in ControlChars THEN ParseError
    ELSE ScanString(s, j + 1, Append(acc, s[j]))

\* dict[key] = value: a repeated key keeps its place and takes the new value
DictSet(pairs, key, value) ==
    IF \E i \in 1..Len(pairs) : pairs[i][1] = key
    THEN [i \in 1..Len(pairs) |->
            IF pairs[i][1] = key THEN <<key, value>> ELSE pairs[i]]
    ELSE Append(pairs, <<key, value>>)

StartsAt(s, i, word) ==
    i + Len(word) - 1 <= Len(s) /\ SubSeq(s, i, i + Len(word) - 1) = word

RECURSIVE ParseValue(_, _)
RECURSIVE ParseMembers(_, _, _)
\* the members of an object from index i (at a key's opening quote) on
ParseMembers(s, i, pairs) ==
    IF i > Len(s) \/ s[i] # "\"" THEN ParseError
    ELSE
        LET k == ScanString(s, i + 1, <<>>) IN
        IF ~k[1] THEN ParseError
        ELSE
            LET c == SkipWs(s, k[3]) IN
            IF c > Len(s) \/ s[c] # ":" THEN ParseError
            ELSE
                LET v == ParseValue(s, c + 1) IN
                IF ~v[1] THEN ParseError
                ELSE
                    LET e == SkipWs(s, v[3])
                        got == DictSet(pairs, k[2][2], v[2])
                    IN  IF e > Len(s) THEN ParseError
                        ELSE IF s[e] = "}" THEN <<TRUE, Dict(got), e + 1>>
                        ELSE IF s[e] = ","
                             THEN ParseMembers(s, SkipWs(s, e + 1), got)
                        ELSE ParseError

ParseValue(s, i0) ==
    LET i == SkipWs(s, i0) IN
    IF i > Len(s) THEN ParseError
    ELSE IF s[i] = "\"" THEN ScanString(s, i + 1, <<>>)
    ELSE IF s[i] = "{" THEN
        LET j == SkipWs(s, i + 1) IN
        IF j <= Len(s) /\ s[j] = "}" THEN <<TRUE, Dict(<<>>), j + 1>>
        ELSE ParseMembers(s, j, <<>>)
    ELSE IF StartsAt(s, i, <<"n","u","l","l">>) THEN <<TRUE, None, i + 4>>
    ELSE IF StartsAt(s, i, <<"t","r","u","e">>) THEN <<TRUE, Bool(TRUE), i + 4>>
    ELSE IF StartsAt(s, i, <<"f","a","l","s","e">>)
         THEN <<TRUE, Bool(FALSE), i + 5>>
    ELSE ParseError

\* <<TRUE, value>>, or <<FALSE, None>> when json.loads raises
JsonLoads(s) ==
    LET r == ParseValue(s, 1) IN
    IF r[1] /\ SkipWs(s, r[3]) = Len(s) + 1 THEN <<TRUE, r[2]>>
    ELSE <<FALSE, None>>

\* dict.get(key): None when the key is absent
DictGet(d, key) ==
    IF \E i \in 1..Len(d[2]) : d[2][i][1] = key
    THEN d[2][CHOOSE i \in 1..Len(d[2]) : d[2][i][1] = key][2]
    ELSE None

(***************************************************************************)
(* String constants of the program                                         *)
(***************************************************************************)
S_linkedin_com == <<"l","i","n","k","e","d","i","n",".","c","o","m">>
S_x_com == <<"x",".","c","o","m">>
S_twitter_com == <<"t","w","i","t","t","e","r",".","c","o","m">>
S_linkedin == <<"l","i","n","k","e","d","i","n">>
S_x == <<"x">>
S_unknown == <<"u","n","k","n","o","w","n">>

K_timestamp == <<"t","i","m","e","s","t","a","m","p">>
K_post_url == <<"p","o","s","t","_","u","r","l">>
K_user_note == <<"u","s","e","r","_","n","o","t","e">>
K_source == <<"s","o","u","r","c","e">>
K_post_text == <<"p","o","s","t","_","t","e","x","t">>
K_query == <<"q","u","e","r","y">>
K_compound_answer == <<"c","o","m","p","o","u","n","d","_","a","n","s","w","e","r">>

(***************************************************************************)
(* Source classifier                                                       *)
(***************************************************************************)
\* A classifier that tests for x.com before linkedin.com.
DetectSourceXFirst(url) ==
    LET u == Lower(Or(url, Str(<<>>))[2]) IN
    IF Contains(S_x_com, u) \/ Contains(S_twitter_com, u) THEN Str(S_x)
    ELSE IF Contains(S_linkedin_com, u) THEN Str(S_linkedin)
    ELSE Str(S_unknown)

\* A classifier that knows twitter.com but not x.com.
DetectSourceTwitterOnly(url) ==
    LET u == Lower(Or(url, Str(<<>>))[2]) IN
    IF Contains(S_linkedin_com, u) THEN Str(S_linkedin)
    ELSE IF Contains(S_twitter_com, u) THEN Str(S_x)
    ELSE Str(S_unknown)

\* _detect_source(url)
_detect_source(url) ==
    LET u == Lower(Or(url, Str(<<>>))[2]) IN
    IF Contains(S_linkedin_com, u) THEN Str(S_linkedin)
    ELSE IF Contains(S_x_com, u) \/ Contains(S_twitter_com, u) THEN Str(S_x)
    ELSE Str(S_unknown)

(***************************************************************************)
(* Report store: ./data/reports.jsonl as the text it holds                 *)
(***************************************************************************)
\* An append that opens the file with mode 'w'.
AppendJsonlTruncating(text, data) == JsonDumps(data) \o <<"\n">>

\* An append that writes the record without the terminating newline.
AppendJsonlNoNewline(text, data) == text \o JsonDumps(data)

\* _append_jsonl: what the file holds after f.write(json.dumps(data) + "\n")
\* on a file opened with mode 'a' (created when absent).
_append_jsonl(text, data) == text \o JsonDumps(data) \o <<"\n">>

RECURSIVE SplitFrom(_, _)
\* `for line in f` in text mode with universal newlines: the lines from index
\* start on, each with its terminator ("\n", "\r" or "\r\n") read as "\n".
SplitFrom(text, start) ==
    IF start > Len(text) THEN <<>>
    ELSE
        LET ends == {i \in start..Len(text) : text[i] \in {"\n", "\r"}} IN
        IF ends = {} THEN <<SubSeq(text, start, Len(text))>>
        ELSE
            LET i == CHOOSE e \in ends : \A o \in ends : e <= o
                next == IF text[i] = "\r" /\ i < Len(text) /\ text[i + 1] = "\n"
                        THEN i + 2 ELSE i + 1
            IN  <<Append(SubSeq(text, start, i - 1), "\n")>>
                \o SplitFrom(text, next)

SplitLines(text) == SplitFrom(text, 1)

RECURSIVE ParseLinesStopAtMalformed(_)
\* A loop that leaves at the first line json.loads raises on.
ParseLinesStopAtMalformed(lines) ==
    IF lines = <<>> THEN <<>>
    ELSE
        LET line == Strip(Head(lines))
            rest == ParseLinesStopAtMalformed(Tail(lines))
        IN  IF line = <<>> THEN rest
            ELSE LET r == JsonLoads(line)
                 IN  IF r[1] THEN <<r[2]>> \o rest ELSE <<>>

RECURSIVE ParseLines(_)
\* the loop body of _read_reports over the lines: strip, skip blank lines,
\* json.loads, skip the lines it raises on
ParseLines(lines) ==
    IF lines = <<>> THEN <<>>
    ELSE
        LET line == Strip(Head(lines))
            rest == ParseLines(Tail(lines))
        IN  IF line = <<>> THEN rest
            ELSE LET r == JsonLoads(line)
                 IN  IF r[1] THEN <<r[2]>> \o rest ELSE rest

\* A reader that truncates before it reverses.
ReadReportsTruncateFirst(exists, text, limit) ==
    IF ~exists THEN <<>> ELSE Reverse(SliceTo(ParseLines(SplitLines(text)), limit))

\* _read_reports(limit): <<>> when the file is missing (FileNotFoundError)
_read_reports(exists, text, limit) ==
    IF ~exists THEN <<>>
    ELSE SliceTo(Reverse(ParseLines(SplitLines(text))), limit)

\* _read_reports' default limit, and the limit api_reports passes
DEFAULT_LIMIT == 100
REPORTS_LIMIT == 200

(***************************************************************************)
(* The completion service.  A non-streaming call either raises or returns  *)
(* a response whose message content is a string or None; a streaming call  *)
(* raises at once, or yields deltas and then ends or raises.  _groq() is   *)
(* None when GROQ_API_KEY is not set.                                      *)
(***************************************************************************)
Raises == <<"raise">>
Content(c) == <<"content", c>>
Stream(deltas, completes) == <<"stream", deltas, completes>>

\* the value of field `key` of the strict-JSON answer, when it is a string
JsonStringField(resp, key) ==
    LET content == Strip(Or(resp[2], EmptyStr)[2])
        data == JsonLoads(content)
    IN  IF ~data[1] THEN None
        ELSE IF IsDict(data[2]) /\ IsStr(DictGet(data[2], key))
             THEN DictGet(data[2], key)
        ELSE None

\* _extract_post_with_kimi(post_url), given what the completion call does
_extract_post_with_kimi(key, resp) ==
    IF ~key THEN None
    ELSE IF resp = Raises THEN None
    ELSE JsonStringField(resp, K_post_text)

\* _shape_query_with_kimi(post_text, user_note), given what the call does
_shape_query_with_kimi(key, resp) ==
    IF ~key THEN None
    ELSE IF resp = Raises THEN None
    ELSE JsonStringField(resp, K_query)

RECURSIVE JoinDeltas(_)
\* ''.join(buf) of the deltas that are truthy
JoinDeltas(deltas) ==
    IF deltas = <<>> THEN <<>>
    ELSE (IF Truthy(Head(deltas)) THEN Head(deltas)[2] ELSE <<>>)
         \o JoinDeltas(Tail(deltas))

\* A synthesizer that returns what it has streamed when the stream breaks.
CompoundSearchKeepsPartial(key, stream) ==
    IF ~key THEN EmptyStr
    ELSE IF stream = Raises THEN EmptyStr
    ELSE Str(JoinDeltas(stream[2]))

\* _compound_search(query), given what the streaming call does
_compound_search(key, stream) ==
    IF ~key THEN EmptyStr
    ELSE IF stream = Raises THEN EmptyStr
    ELSE IF ~stream[3] THEN EmptyStr
    ELSE Str(JoinDeltas(stream[2]))

(***************************************************************************)
(* The browser-automation extractor.  The agent's result is an object of   *)
(* no fixed shape: each attribute is Absent or a value.                    *)
(*   final_result : Absent, <<"method", v>>, <<"method_raises">>,          *)
(*                  <<"attr", v>>                                          *)
(*   items        : <<"not_iterable">> or <<"iter", sub-results>>          *)
(*   all_results  : Absent, None or a list of sub-results                  *)
(*   history      : Absent, None or <<"object", all_results>>              *)
(*   extracted_content : Absent or a value                                 *)
(*   text         : str(result)                                            *)
(* A sub-result is a record of is_done, extracted_content, content, text,  *)
(* result and output, each Absent or a value.                              *)
(***************************************************************************)
Absent == <<"absent">>
GetAttr(v, default) == IF v = Absent THEN default ELSE v

\* isinstance(v, str) and v.strip()
NonBlankStr(v) == IsStr(v) /\ Strip(v[2]) # <<>>
Stripped(v) == Str(Strip(v[2]))

\* Method 1: final_result, called when it is callable
FinalResult(res) ==
    LET f == res.final_result IN
    IF f = Absent \/ f = <<"method_raises">> THEN None
    ELSE IF NonBlankStr(f[2]) THEN Stripped(f[2])
    ELSE None

\* Method 2: where the sub-results come from
AllResults(res) ==
    LET iterated == IF res.items[1] = "iter" THEN res.items[2] ELSE <<>>
        attr == Or(GetAttr(res.all_results, List(<<>>)), List(<<>>))[2]
        history == GetAttr(res.history, None)
        nested == IF Truthy(history)
                  THEN Or(GetAttr(history[2], List(<<>>)), List(<<>>))[2]
                  ELSE <<>>
    IN  IF iterated # <<>> THEN iterated
        ELSE IF attr # <<>> THEN attr
        ELSE nested

DoneFields == <<"extracted_content", "content", "text", "result", "output">>

\* the first of the five fields of a sub-result that holds a non-blank string
FirstField(sub) ==
    LET hits == {i \in 1..Len(DoneFields) :
                    NonBlankStr(GetAttr(sub[DoneFields[i]], None))}
    IN  IF hits = {} THEN None
        ELSE Stripped(sub[DoneFields[CHOOSE i \in hits : \A j \in hits : i <= j]])

\* Method 2: the first sub-result flagged done that holds a text
DoneResult(subs) ==
    LET hits == {i \in 1..Len(subs) :
                    /\ Truthy(GetAttr(subs[i].is_done, Bool(FALSE)))
                    /\ FirstField(subs[i]) # None}
    IN  IF hits = {} THEN None
        ELSE FirstField(subs[CHOOSE i \in hits : \A j \in hits : i <= j])

\* Method 3: extracted_content of the result itself
OwnContent(res) ==
    IF res.extracted_content # Absent /\ NonBlankStr(res.extracted_content)
    THEN Stripped(res.extracted_content)
    ELSE None

\* Method 4: the last non-blank extracted_content of the sub-results
LastContent(subs) ==
    LET hits == {i \in 1..Len(subs) :
                    NonBlankStr(GetAttr(subs[i].extracted_content, None))}
    IN  IF hits = {} THEN None
        ELSE Stripped(subs[CHOOSE i \in hits : \A j \in hits : i >= j]
                        .extracted_content)

S_extracted_content ==
    <<"e","x","t","r","a","c","t","e","d","_","c","o","n","t","e","n","t">>
S_field_open == S_extracted_content \o <<"=","'">>
S_done_result ==
    <<"A","c","t","i","o","n","R","e","s","u","l","t","(",
      "i","s","_","d","o","n","e","=","T","r","u","e">>
S_waited_for == <<"W","a","i","t","e","d"," ","f","o","r">>

Least(S) == CHOOSE i \in S : \A j \in S : i <= j

\* the places from index `from` on where extracted_content='([^']+)' matches,
\* as <<start, first captured, closing quote>>
FieldMatches(s, from) ==
    { <<j, j + Len(S_field_open), q>> :
        j \in {j \in from..Len(s) : StartsAt(s, j, S_field_open)},
        q \in 1..Len(s) } \cap
    { m \in (1..Len(s)) \X (1..(Len(s) + 1)) \X (1..Len(s)) :
        /\ m[3] > m[2]
        /\ s[m[3]] = "'"
        /\ \A c \in m[2]..(m[3] - 1) : s[c] # "'" }

\* Method 5, first pattern:
\* ActionResult\(is_done=True.*?extracted_content='([^']+)'.*?\)  (DOTALL)
DonePattern(s) ==
    LET starts == {i \in 1..Len(s) : StartsAt(s, i, S_done_result)}
        closed(m) == \E c \in (m[3] + 1)..Len(s) : s[c] = ")"
        found(i) == {m \in FieldMatches(s, i + Len(S_done_result)) : closed(m)}
        ok == {i \in starts : found(i) # {}}
    IN  IF ok = {} THEN None
        ELSE LET i == Least(ok)
                 j == Least({m[1] : m \in found(i)})
                 m == CHOOSE m \in found(i) : m[1] = j
             IN  Str(Strip(SubSeq(s, m[2], m[3] - 1)))

RECURSIVE LastFieldMatch(_, _, _)
\* re.findall(r"extracted_content='([^']+)'", s)[-1]: the matches do not
\* overlap, each search resuming after the last closing quote
LastFieldMatch(s, from, last) ==
    LET ms == FieldMatches(s, from) IN
    IF ms = {} THEN last
    ELSE LET j == Least({m[1] : m \in ms})
             m == CHOOSE m \in ms : m[1] = j
         IN  LastFieldMatch(s, m[3] + 1, Str(SubSeq(s, m[2], m[3] - 1)))

\* Method 5, second pattern
AnyPattern(s) ==
    LET last == LastFieldMatch(s, 1, None) IN
    IF last = None THEN None
    ELSE LET content == Strip(last[2]) IN
         IF content # <<>> /\ ~StartsAt(content, 1, S_waited_for)
         THEN Str(content)
         ELSE None

\* Method 5: the string form of the result
FromText(s) ==
    IF ~Contains(S_extracted_content, s) THEN None
    ELSE IF DonePattern(s) # None THEN DonePattern(s)
    ELSE AnyPattern(s)

\* A resolution that looks at the sub-results' extracted_content before the
\* result's own.
ResultTextSubResultsFirst(res) ==
    IF FinalResult(res) # None THEN FinalResult(res)
    ELSE IF DoneResult(AllResults(res)) # None THEN DoneResult(AllResults(res))
    ELSE IF LastContent(AllResults(res)) # None THEN LastContent(AllResults(res))
    ELSE IF OwnContent(res) # None THEN OwnContent(res)
    ELSE FromText(res.text)

\* lines 140-243: the text of an automation result, None when none is found
ResultText(res) ==
    IF FinalResult(res) # None THEN FinalResult(res)
    ELSE IF DoneResult(AllResults(res)) # None THEN DoneResult(AllResults(res))
    ELSE IF OwnContent(res) # None THEN OwnContent(res)
    ELSE IF LastContent(AllResults(res)) # None THEN LastContent(AllResults(res))
    ELSE FromText(res.text)

\* _extract_x_post_with_browser_use(post_url), given what agent.run() does:
\* Raises, or <<"result", res>>
_extract_x_post_with_browser_use(key, run) ==
    IF ~key THEN None
    ELSE IF run = Raises THEN None
    ELSE IF run[2].text = Raises THEN None   \* str(result) raises in the print
    ELSE ResultText(run[2])

(***************************************************************************)
(* Bounds and inputs                                                       *)
(***************************************************************************)
MaxFragments == 3    \* fragments a classifier input is made of
MaxInitLines == 3    \* lines of the store a run starts with
MaxLines == 4        \* lines the store grows to
MaxLimit == 2        \* the limits 0..MaxLimit are read with
NumRequests == 2     \* trigger requests of a run

Requests == 1..NumRequests

UrlFragments ==
    { S_linkedin_com, <<"L","i","n","k","e","d","I","n",".","C","O","M">>,
      S_x_com, <<"X",".","C","o","m">>,
      S_twitter_com, <<"T","W","I","T","T","E","R",".","c","o","m">>,
      <<"x",".","c","o">>, <<"m">>, <<"l","i","n","k","e","d">>,
      <<"i","n",".","c","o","m">>, <<"/">>, <<"a",".","i","o">> }

RECURSIVE UrlsOf(_)
\* the concatenations of at most n fragments
UrlsOf(n) ==
    IF n = 0 THEN {<<>>}
    ELSE LET shorter == UrlsOf(n - 1)
         IN  shorter \cup {u \o f : u \in shorter, f \in UrlFragments}

ClassifierInputs == {None} \cup {Str(u) : u \in UrlsOf(MaxFragments)}

\* lines a store may hold when a run starts, with what each is
L_valid == <<"{","\"","q","u","e","r","y","\"",":"," ","\"","q","\"","}">>
L_padded == <<" ","\"","a","\"","\t">>
L_truncated == <<"{","\"","q","u","e","r","y","\"",":"," ","\"","q","\"">>
L_blank == <<" ">>

FixtureLines ==
    { <<L_valid, <<"valid", Dict(<< <<K_query, Str(<<"q">>)>> >>)>> >>,
      <<L_padded, <<"valid", Str(<<"a">>)>> >>,
      <<L_truncated, <<"malformed">> >>,
      <<L_blank, <<"blank">> >> }

RECURSIVE StoresOf(_)
\* <<text, log>> of the stores of at most n fixture lines, each line terminated
StoresOf(n) ==
    IF n = 0 THEN {<< <<>>, <<>> >>}
    ELSE LET shorter == StoresOf(n - 1)
         IN  shorter \cup
             { <<s[1] \o l[1] \o <<"\n">>, Append(s[2], l[2])>> :
                 s \in shorter, l \in FixtureLines }

\* records appended to the store
R_report ==
    Dict(<< <<K_timestamp, Str(<<"1","Z">>)>>,
            <<K_post_url, Str(<<"x",".","c","o","m","/","1">>)>>,
            <<K_user_note, Str(<<"n","\"">>)>>,
            <<K_source, Str(S_x)>>,
            <<K_post_text, Str(<<"a","\n","b">>)>>,
            <<K_query, Str(<<"q","\\">>)>>,
            <<K_compound_answer, Str(<<>>)>> >>)
R_small == Dict(<< << <<"a">>, Str(<<"\r","\t","/">>)>> >>)
R_nested ==
    Dict(<< << <<"k">>, None>>, << <<"d">>, Dict(<<>>)>>, << <<>>, Bool(TRUE)>> >>)

StoreRecords == {R_report, R_small, R_nested}

ReadLimits == (0..MaxLimit) \cup {DEFAULT_LIMIT, REPORTS_LIMIT}

\* history: the values of the valid lines, oldest first
RECURSIVE ValidValues(_)
ValidValues(l) ==
    IF l = <<>> THEN <<>>
    ELSE IF Head(l)[1] = "valid" THEN <<Head(l)[2]>> \o ValidValues(Tail(l))
    ELSE ValidValues(Tail(l))

NoOp == <<"none">>
\* what a read remembers of the operation before it
Before(op) == IF op[1] = "append" THEN op ELSE <<"other">>

(***************************************************************************)
(* Initial states                                                          *)
(***************************************************************************)
ClassifierIdle == url_in = None /\ source_out = None

\* the extractor has not returned yet
Pending == <<"pending">>
ExtractorIdle == run_in = None /\ text_out = Pending

PipelineIdle ==
    /\ running = 0
    /\ clock = 1
    /\ pc = [r \in Requests |-> "idle"]
    /\ req = [r \in Requests |-> None]
    /\ source = [r \in Requests |-> None]
    /\ post_text = [r \in Requests |-> None]
    /\ query = [r \in Requests |-> None]
    /\ compound_answer = [r \in Requests |-> None]
    /\ returned = [r \in Requests |-> None]
    /\ stages = [r \in Requests |-> <<>>]
    /\ invoked = [r \in Requests |-> {}]
    /\ last_call = <<"none">>

StoreMissing ==
    file_exists = FALSE /\ file_text = <<>> /\ log = <<>> /\ last_op = NoOp

(***************************************************************************)
(* The classifier on its own                                               *)
(***************************************************************************)
InitDetect ==
    /\ url_in \in ClassifierInputs
    /\ source_out = None
    /\ StoreMissing
    /\ has_key = FALSE
    /\ PipelineIdle
    /\ ExtractorIdle

Classify ==
    /\ source_out = None
    /\ source_out' = _detect_source(url_in)
    /\ UNCHANGED <<url_in, extractor_vars, store_vars, pipeline_vars>>

NextDetect == Classify

SpecDetect == InitDetect /\ [][NextDetect]_vars

(***************************************************************************)
(* The store on its own: append(record) and list(limit)                    *)
(***************************************************************************)
InitStore ==
    /\ ClassifierIdle
    /\ has_key = FALSE
    /\ PipelineIdle
    /\ ExtractorIdle
    /\ last_op = NoOp
    /\ \/ file_exists = FALSE /\ file_text = <<>> /\ log = <<>>
       \/ \E s \in StoresOf(MaxInitLines) :
            file_exists = TRUE /\ file_text = s[1] /\ log = s[2]

\* _append_jsonl(path, data)
StoreAppend ==
    \E r \in StoreRecords :
        /\ Len(log) < MaxLines
        /\ file_exists' = TRUE
        /\ file_text' = _append_jsonl(file_text, r)
        /\ log' = Append(log, <<"valid", r>>)
        /\ last_op' = <<"append", r>>
        /\ UNCHANGED <<classifier_vars, extractor_vars, pipeline_vars>>

\* _read_reports(limit)
StoreRead ==
    \E k \in ReadLimits :
        /\ last_op' = <<"read", k, _read_reports(file_exists, file_text, k),
                        Before(last_op)>>
        /\ UNCHANGED <<file_exists, file_text, log, classifier_vars, extractor_vars, pipeline_vars>>

\* GET /reports
api_reports ==
    /\ last_op' = <<"api", REPORTS_LIMIT,
                    _read_reports(file_exists, file_text, REPORTS_LIMIT),
                    Before(last_op)>>
    /\ UNCHANGED <<file_exists, file_text, log, classifier_vars, extractor_vars, pipeline_vars>>

NextStore == StoreAppend \/ StoreRead \/ api_reports

SpecStore == InitStore /\ [][NextStore]_vars

(***************************************************************************)
(* POST /trigger.  The handler is a coroutine on the one event loop: it    *)
(* holds the loop from its start to its return, except while it awaits the *)
(* automation agent; GET /reports is a plain function and runs on a worker *)
(* thread at any time.                                                     *)
(***************************************************************************)
E_ok == <<"{","\"","p","o","s","t","_","t","e","x","t","\"",":"," ","\"","h","\\","\"","\\","n","\"","}">>
E_empty == <<"{","\"","p","o","s","t","_","t","e","x","t","\"",":"," ","\"","\"","}">>
E_malformed == <<"o","o","p","s">>
E_missing == <<"{","\"","t","e","x","t","\"",":"," ","\"","h","i","\"","}">>
E_null == <<"{","\"","p","o","s","t","_","t","e","x","t","\"",":"," ","n","u","l","l","}">>
E_not_dict == <<"\"","h","i","\"">>
Q_ok == <<" ","{","\"","q","u","e","r","y","\"",":"," ","\"","q","\"","}","\n">>
Q_empty == <<"{","\"","q","u","e","r","y","\"",":"," ","\"","\"","}">>
Q_malformed == <<"{","\"","q","u","e","r","y","\"",":"," ","\"","q","\"">>
Q_missing == <<"{","}">>
Q_null == <<"{","\"","q","u","e","r","y","\"",":"," ","n","u","l","l","}">>
Q_not_dict == <<"t","r","u","e">>

\* what the extraction call may do
ExtractResponses ==
    {Raises, Content(None)} \cup
    {Content(Str(c)) : c \in {E_ok, E_empty, E_malformed, E_missing, E_null,
                              E_not_dict}}

\* what the query call may do
QueryResponses ==
    {Raises, Content(None)} \cup
    {Content(Str(c)) : c \in {Q_ok, Q_empty, Q_malformed, Q_missing, Q_null,
                              Q_not_dict}}

\* what the streaming call may do
Streams ==
    { Raises,
      Stream(<<>>, TRUE),
      Stream(<<Str(<<"a">>), None, Str(<<>>), Str(<<"b">>)>>, TRUE),
      Stream(<<Str(<<"a">>)>>, FALSE) }

NoAttrs ==
    [is_done |-> Absent, extracted_content |-> Absent, content |-> Absent,
     text |-> Absent, result |-> Absent, output |-> Absent]
Shapeless ==
    [final_result |-> Absent, items |-> <<"not_iterable">>,
     all_results |-> Absent, history |-> Absent, extracted_content |-> Absent,
     text |-> <<"R","(",")">>]

\* what agent.run() may do
AgentRuns ==
    { Raises,
      <<"result", Shapeless>>,
      <<"result", [Shapeless EXCEPT !.final_result = <<"method", None>>,
                                    !.items = <<"iter", <<NoAttrs>> >>]>>,
      <<"result", [Shapeless EXCEPT !.final_result = <<"method", Str(<<" ","t">>)>>]>>,
      <<"result", [Shapeless EXCEPT
            !.history = <<"object", List(<<
                [NoAttrs EXCEPT !.extracted_content = Str(<<"w">>)],
                [NoAttrs EXCEPT !.is_done = Bool(TRUE),
                                !.text = Str(<<"t">>)] >>)>>]>>,
      <<"result", [Shapeless EXCEPT
            !.text = S_field_open \o <<"t","'">>]>> }

U_x == <<"x",".","c","o","m","/","1">>
U_x_linkedin == <<"x",".","c","o","m","/","l","i","n","k","e","d","i","n",".","c","o","m">>
U_other == <<"a",".","i","o">>

\* the Trigger bodies of the requests
TriggerUrls == {U_x, U_x_linkedin, U_other}
Notes == {<<>>, <<"n">>}

Digits == <<"1","2","3","4","5","6","7","8","9">>
\* datetime.utcnow().isoformat() + 'Z' at time c
Timestamp(c) == <<Digits[c], "Z">>

\* A dispatch that sends only linkedin URLs to the completion-call extractor.
ExtractorForLinkedinOnly(src) ==
    IF src = Str(S_linkedin) THEN "_extract_post_with_kimi"
    ELSE "_extract_x_post_with_browser_use"

\* the branch of `if source == 'x'`
ExtractorFor(src) ==
    IF src = Str(S_x) THEN "_extract_x_post_with_browser_use"
    ELSE "_extract_post_with_kimi"

\* A fallback that leaves the source out.
FallbackQueryNoteOnly(note, src) == note

\* f"{req.note} (source: {source})"
FallbackQuery(note, src) ==
    note \o <<" ","(","s","o","u","r","c","e",":"," ">> \o src \o <<")">>

\* A result built with the URL in the place of the note.
ReportSwapped(r) ==
    Dict(<< <<K_timestamp, Str(Timestamp(clock))>>,
            <<K_post_url, req[r].note>>,
            <<K_user_note, req[r].url>>,
            <<K_source, source[r]>>,
            <<K_post_text, post_text[r]>>,
            <<K_query, query[r]>>,
            <<K_compound_answer, compound_answer[r]>> >>)

\* the dict `result` of request r
Report(r) ==
    Dict(<< <<K_timestamp, Str(Timestamp(clock))>>,
            <<K_post_url, req[r].url>>,
            <<K_user_note, req[r].note>>,
            <<K_source, source[r]>>,
            <<K_post_text, post_text[r]>>,
            <<K_query, query[r]>>,
            <<K_compound_answer, compound_answer[r]>> >>)

Ran(r, stage) == stages' = [stages EXCEPT ![r] = Append(@, stage)]

\* the handler starts: source = _detect_source(req.url)
TriggerBegin(r) ==
    /\ pc[r] = "idle"
    /\ running = 0
    /\ \E u \in TriggerUrls, n \in Notes :
        /\ req' = [req EXCEPT ![r] = [url |-> Str(u), note |-> Str(n)]]
        /\ source' = [source EXCEPT ![r] = _detect_source(Str(u))]
    /\ running' = r
    /\ pc' = [pc EXCEPT ![r] = "extract"]
    /\ Ran(r, "classify")
    /\ UNCHANGED <<classifier_vars, extractor_vars, store_vars, has_key, clock, post_text, query,
                   compound_answer, returned, invoked, last_call>>

\* await _extract_x_post_with_browser_use(req.url): without the key it returns
\* at once, with it the handler is suspended in agent.run()
ExtractX(r) ==
    /\ pc[r] = "extract"
    /\ running = r
    /\ ExtractorFor(source[r]) = "_extract_x_post_with_browser_use"
    /\ invoked' = [invoked EXCEPT ![r] = @ \cup {"_extract_x_post_with_browser_use"}]
    /\ IF has_key
       THEN /\ pc' = [pc EXCEPT ![r] = "await"]
            /\ running' = 0
            /\ UNCHANGED <<post_text, stages, last_call>>
       ELSE /\ post_text' = [post_text EXCEPT ![r] =
                    Or(_extract_x_post_with_browser_use(has_key, Raises), EmptyStr)]
            /\ pc' = [pc EXCEPT ![r] = "query"]
            /\ Ran(r, "extract")
            /\ last_call' = <<"extract", r, <<"not_run">> >>
            /\ UNCHANGED running
    /\ UNCHANGED <<classifier_vars, extractor_vars, store_vars, has_key, clock, req, source, query,
                   compound_answer, returned>>

\* agent.run() is over and the handler resumes
AgentDone(r) ==
    /\ pc[r] = "await"
    /\ running = 0
    /\ \E run \in AgentRuns :
        /\ post_text' = [post_text EXCEPT ![r] =
                Or(_extract_x_post_with_browser_use(has_key, run), EmptyStr)]
        /\ last_call' = <<"extract", r, run>>
    /\ running' = r
    /\ pc' = [pc EXCEPT ![r] = "query"]
    /\ Ran(r, "extract")
    /\ UNCHANGED <<classifier_vars, extractor_vars, store_vars, has_key, clock, req, source, query,
                   compound_answer, returned, invoked>>

\* post_text = _extract_post_with_kimi(req.url) or ''
ExtractKimi(r) ==
    /\ pc[r] = "extract"
    /\ running = r
    /\ ExtractorFor(source[r]) = "_extract_post_with_kimi"
    /\ invoked' = [invoked EXCEPT ![r] = @ \cup {"_extract_post_with_kimi"}]
    /\ \E resp \in ExtractResponses :
        /\ post_text' = [post_text EXCEPT ![r] =
                Or(_extract_post_with_kimi(has_key, resp), EmptyStr)]
        /\ last_call' = <<"extract", r, resp>>
    /\ pc' = [pc EXCEPT ![r] = "query"]
    /\ Ran(r, "extract")
    /\ UNCHANGED <<classifier_vars, extractor_vars, store_vars, has_key, running, clock, req, source,
                   query, compound_answer, returned>>

\* query = _shape_query_with_kimi(post_text, req.note) or f"..."
BuildQuery(r) ==
    /\ pc[r] = "query"
    /\ running = r
    /\ \E resp \in QueryResponses :
        /\ query' = [query EXCEPT ![r] =
                Or(_shape_query_with_kimi(has_key, resp),
                   Str(FallbackQuery(req[r].note[2], source[r][2])))]
        /\ last_call' = <<"query", r, resp>>
    /\ pc' = [pc EXCEPT ![r] = "search"]
    /\ Ran(r, "query")
    /\ UNCHANGED <<classifier_vars, extractor_vars, store_vars, has_key, running, clock, req, source,
                   post_text, compound_answer, returned, invoked>>

\* compound_answer = _compound_search(query)
Search(r) ==
    /\ pc[r] = "search"
    /\ running = r
    /\ \E stream \in Streams :
        /\ compound_answer' = [compound_answer EXCEPT ![r] =
                _compound_search(has_key, stream)]
        /\ last_call' = <<"answer", r, stream>>
    /\ pc' = [pc EXCEPT ![r] = "persist"]
    /\ Ran(r, "answer")
    /\ UNCHANGED <<classifier_vars, extractor_vars, store_vars, has_key, running, clock, req, source,
                   post_text, query, returned, invoked>>

\* result = {...}; _append_jsonl('./data/reports.jsonl', result); return result
Persist(r) ==
    /\ pc[r] = "persist"
    /\ running = r
    /\ file_exists' = TRUE
    /\ file_text' = _append_jsonl(file_text, Report(r))
    /\ log' = Append(log, <<"valid", Report(r)>>)
    /\ last_op' = <<"append", Report(r)>>
    /\ returned' = [returned EXCEPT ![r] = Report(r)]
    /\ clock' = clock + 1
    /\ running' = 0
    /\ pc' = [pc EXCEPT ![r] = "done"]
    /\ Ran(r, "append")
    /\ UNCHANGED <<classifier_vars, extractor_vars, has_key, req, source, post_text, query,
                   compound_answer, invoked, last_call>>

trigger(r) ==
    \/ TriggerBegin(r)
    \/ ExtractX(r)
    \/ AgentDone(r)
    \/ ExtractKimi(r)
    \/ BuildQuery(r)
    \/ Search(r)
    \/ Persist(r)

\* the store a run starts with: no file, or a file with a torn and a whole line
Init ==
    /\ ClassifierIdle
    /\ has_key \in BOOLEAN
    /\ PipelineIdle
    /\ ExtractorIdle
    /\ last_op = NoOp
    /\ \/ file_exists = FALSE /\ file_text = <<>> /\ log = <<>>
       \/ /\ file_exists = TRUE
          /\ file_text = L_truncated \o <<"\n">> \o L_valid \o <<"\n">>
          /\ log = << <<"malformed">>,
                      <<"valid", Dict(<< <<K_query, Str(<<"q">>)>> >>)>> >>

Next == (\E r \in Requests : trigger(r)) \/ api_reports

Spec == Init /\ [][Next]_vars

(***************************************************************************)
(* The browser-automation extractor on its own: the agent has run and the  *)
(* result is resolved (lines 132-249).                                     *)
(***************************************************************************)
MaxSubResults == 2   \* sub-results an automation result holds

\* sub-results: a step without attributes, a done one whose fields hold no
\* text, a done one whose second and fifth fields hold text, a done one with
\* extracted_content, and a step that is not done but has extracted_content
SR_plain == NoAttrs
SR_done_none ==
    [NoAttrs EXCEPT !.is_done = Bool(TRUE), !.extracted_content = Str(<<" ">>),
                    !.content = None]
SR_done_fields ==
    [NoAttrs EXCEPT !.is_done = Bool(TRUE), !.extracted_content = Str(<<>>),
                    !.content = Str(<<" ","c">>), !.output = Str(<<"o">>)]
SR_done_ec ==
    [NoAttrs EXCEPT !.is_done = Bool(TRUE), !.extracted_content = Str(<<"d">>),
                    !.text = Str(<<"t">>)]
SR_step ==
    [NoAttrs EXCEPT !.is_done = Bool(FALSE),
                    !.extracted_content = Str(<<"w"," ">>),
                    !.content = Str(<<"k">>)]
SubResults == {SR_plain, SR_done_none, SR_done_fields, SR_done_ec, SR_step}

RECURSIVE SubListsOf(_)
\* the lists of at most n sub-results
SubListsOf(n) ==
    IF n = 0 THEN {<<>>}
    ELSE LET shorter == SubListsOf(n - 1)
         IN  shorter \cup {Append(l, s) : l \in shorter, s \in SubResults}

\* extracted_content='c' as it stands in the string form of a result
Field(c) == S_field_open \o c \o <<"'">>

\* string forms: without the field; with a done ActionResult between two
\* other fields; with fields only; with a last field that is a wait message;
\* with a done ActionResult whose field is blank
T_shapeless == <<"R","(",")">>
T_done ==
    Field(<<"a">>) \o <<" ">> \o S_done_result \o <<","," ">>
        \o Field(<<" ","p">>) \o <<")"," ">> \o Field(<<"z">>)
T_any == Field(<<"a">>) \o <<","," ">> \o Field(<<" ","z"," ">>)
T_waited ==
    Field(<<"a">>) \o <<","," ">> \o Field(S_waited_for \o <<" ","1">>)
T_blank == S_done_result \o <<","," ">> \o Field(<<" ">>) \o <<")">>
ResultTexts == {T_shapeless, T_done, T_any, T_waited, T_blank, Raises}

FinalResults ==
    { Absent, <<"method", None>>, <<"method_raises">>,
      <<"method", Str(<<" ","f"," ">>)>>, <<"attr", Str(<<"g">>)>> }
Iterations ==
    {<<"not_iterable">>} \cup {<<"iter", l>> : l \in SubListsOf(MaxSubResults)}
AllResultsAttrs == {Absent, None, List(<<SR_step, SR_done_fields>>)}
Histories == {Absent, <<"object", Absent>>, <<"object", List(<<SR_done_ec>>)>>}
OwnContents == {Absent, Str(<<" ">>), Str(<<" ","o"," ">>)}

\* the automation results the extractor is given
ExtractResults ==
    [final_result : FinalResults, items : Iterations,
     all_results : AllResultsAttrs, history : Histories,
     extracted_content : OwnContents, text : ResultTexts]

InitExtract ==
    /\ ClassifierIdle
    /\ StoreMissing
    /\ PipelineIdle
    /\ text_out = Pending
    /\ \/ /\ has_key = TRUE
          /\ run_in \in {Raises} \cup {<<"result", res>> : res \in ExtractResults}
       \/ /\ has_key = FALSE
          /\ run_in \in AgentRuns

\* await _extract_x_post_with_browser_use(post_url) returns
ResolveX ==
    /\ text_out = Pending
    /\ text_out' = _extract_x_post_with_browser_use(has_key, run_in)
    /\ UNCHANGED <<run_in, classifier_vars, store_vars, pipeline_vars>>

NextExtract == ResolveX

SpecExtract == InitExtract /\ [][NextExtract]_vars

(***************************************************************************)
(* Claims about the store (checked under SpecStore)                        *)
(***************************************************************************)
IsRead(op) == op[1] \in {"read", "api"}
Min(a, b) == IF a <= b THEN a ELSE b

\* the k last of values, last first
NewestFirst(values, k) ==
    [i \in 1..Min(k, Len(values)) |-> values[Len(values) + 1 - i]]

CountOf(kind) == Cardinality({i \in 1..Len(log) : log[i][1] = kind})

\* C1: a list(limit=1) that directly follows append(r) returns the list whose
\* only element is r, whatever the store held before.
C1_AppendThenList ==
    (last_op[1] = "read" /\ last_op[2] = 1 /\ last_op[4][1] = "append")
        => last_op[3] = <<last_op[4][2]>>

\* C1 happens: the full report, with a quote, a newline and a backslash in its
\* fields, is appended to a store that holds a malformed and a valid line and
\* is then listed with limit 1.
C1_Witness ==
    /\ last_op[1] = "read" /\ last_op[2] = 1
    /\ last_op[4] = <<"append", R_report>>
    /\ CountOf("malformed") >= 1
    /\ CountOf("valid") >= 2
    /\ last_op[3] = <<R_report>>

\* C2: list(limit=k) returns at most k records, and they are the k most
\* recently stored records, newest first; GET /reports does so with k = 200.
C2_NewestFirstAtMostK ==
    /\ IsRead(last_op) =>
          /\ Len(last_op[3]) <= last_op[2]
          /\ last_op[3] = NewestFirst(ValidValues(log), last_op[2])
    /\ last_op[1] = "api" =>
          /\ last_op[2] = 200
          /\ last_op[3] = NewestFirst(ValidValues(log), 200)

\* C2 happens: a list with a limit below the number of records stored cut the
\* result, and it starts with a record appended after the store's first ones.
C2_Witness ==
    /\ last_op[1] = "read"
    /\ last_op[2] = 2
    /\ CountOf("valid") >= 3
    /\ Len(last_op[3]) = 2
    /\ last_op[3][1] # last_op[3][2]
    /\ last_op[3][1] = log[Len(log)][2]

\* C3 as stated: list returns exactly N records for a store of N valid lines.
C3_ExactlyN ==
    IsRead(last_op) => Len(last_op[3]) = CountOf("valid")

\* C3, amended: list(limit) returns the valid lines' records, newest first,
\* up to limit of them: min(N, limit) records, none of them from a malformed
\* or blank line; a missing file gives the empty list.
C3_ValidLinesUpToLimit ==
    IsRead(last_op) =>
        /\ Len(last_op[3]) = Min(CountOf("valid"), last_op[2])
        /\ \A i \in 1..Len(last_op[3]) :
              \E j \in 1..Len(log) : log[j] = <<"valid", last_op[3][i]>>
        /\ (last_op[2] >= CountOf("valid") =>
              last_op[3] = Reverse(ValidValues(log)))
        /\ (~file_exists => last_op[3] = <<>>)

\* C3 happens: a store whose malformed lines come before, between and after
\* its valid ones is listed in full.
C3_Witness ==
    /\ IsRead(last_op)
    /\ Len(log) >= 4
    /\ log[1][1] = "malformed"
    /\ log[2][1] = "valid"
    /\ log[3][1] \in {"malformed", "blank"}
    /\ log[4][1] = "valid"
    /\ Len(last_op[3]) = 2

(***************************************************************************)
(* Claims about the classifier (checked under SpecDetect)                  *)
(***************************************************************************)
SameLetter(a, b) ==
    a = b \/ \E i \in 1..26 : {a, b} = {UpperCase[i], LowerCase[i]}

\* hay contains needle, letter case ignored
ContainsAnyCase(needle, hay) ==
    \E i \in 1..(Len(hay) - Len(needle) + 1) :
        \A j \in 1..Len(needle) : SameLetter(hay[i + j - 1], needle[j])

UrlText == IF url_in = None THEN <<>> ELSE url_in[2]
HasLinkedin == ContainsAnyCase(S_linkedin_com, UrlText)
HasX == ContainsAnyCase(S_x_com, UrlText) \/ ContainsAnyCase(S_twitter_com, UrlText)
Sources == {Str(S_linkedin), Str(S_x), Str(S_unknown)}

\* C4 as stated: "linkedin.com" gives linkedin, "x.com" or "twitter.com" gives
\* x, anything else unknown.
C4_AsStated ==
    source_out # None =>
        /\ source_out \in Sources
        /\ HasLinkedin => source_out = Str(S_linkedin)
        /\ HasX => source_out = Str(S_x)
        /\ (~HasLinkedin /\ ~HasX) => source_out = Str(S_unknown)

\* C4, amended: "linkedin.com" gives linkedin; "x.com" or "twitter.com"
\* without "linkedin.com" gives x; anything else unknown; letter case is
\* ignored and the result is always one of the three.
C4_LinkedinFirst ==
    source_out # None =>
        /\ source_out \in Sources
        /\ HasLinkedin => source_out = Str(S_linkedin)
        /\ (HasX /\ ~HasLinkedin) => source_out = Str(S_x)
        /\ (~HasLinkedin /\ ~HasX) => source_out = Str(S_unknown)

\* C4 happens: a URL in mixed case that holds both "x.com" and "linkedin.com"
\* was classified.
C4_Witness ==
    /\ source_out = Str(S_linkedin)
    /\ HasX /\ HasLinkedin
    /\ Lower(UrlText) # UrlText
    /\ ~Contains(S_linkedin_com, UrlText)

(***************************************************************************)
(* Claims about POST /trigger (checked under Spec)                         *)
(***************************************************************************)
AfterQuery(r) == pc[r] \in {"search", "persist", "done"}
AfterExtract(r) == pc[r] \in {"query", "search", "persist", "done"}

\* "{note} (source: {source})" of request r, spelled out
Templated(r) ==
    Str(req[r].note[2] \o <<" ","(","s","o","u","r","c","e",":"," ">>
        \o source[r][2] \o <<")">>)

\* the query call gave no usable query: no client, call failure, no content,
\* malformed JSON, a missing or non-string query field, or not an object
QueryCallFailed(call) ==
    \/ ~has_key
    \/ call \in {Raises, Content(None), Content(Str(Q_malformed)),
                 Content(Str(Q_missing)), Content(Str(Q_null)),
                 Content(Str(Q_not_dict))}

\* the last step was the query stage of request last_call[2]
QueryJustBuilt == last_call[1] = "query" /\ pc[last_call[2]] = "search"

\* C5: the query stage always yields a non-empty string, and when the
\* completion service gave no usable query it is "{note} (source: {source})".
C5_QueryFallback ==
    /\ \A r \in Requests :
          AfterQuery(r) => (IsStr(query[r]) /\ query[r][2] # <<>>)
    /\ (QueryJustBuilt /\ QueryCallFailed(last_call[3])) =>
          query[last_call[2]] = Templated(last_call[2])

\* C5 happens: with a client, the query call raised for a request with the
\* empty note, and the query is " (source: x)".
C5_Witness ==
    /\ QueryJustBuilt
    /\ has_key
    /\ last_call[3] = Raises
    /\ req[last_call[2]].note = EmptyStr
    /\ query[last_call[2]] =
          Str(<<" ","(","s","o","u","r","c","e",":"," ","x",")">>)

\* the extraction call found no text
ExtractCallFailed(call) ==
    \/ ~has_key
    \/ call \in {Raises, Content(None), Content(Str(E_malformed)),
                 Content(Str(E_missing)), Content(Str(E_null)),
                 Content(Str(E_not_dict)), <<"result", Shapeless>>}

\* the streaming call failed, at once or after some deltas
AnswerCallFailed(call) == ~has_key \/ call = Raises \/ ~call[3]

ReportKeys ==
    <<K_timestamp, K_post_url, K_user_note, K_source, K_post_text, K_query,
      K_compound_answer>>

\* a dict of the seven Report fields, each a string
IsReport(v) ==
    /\ IsDict(v)
    /\ Len(v[2]) = 7
    /\ \A i \in 1..7 : v[2][i][1] = ReportKeys[i] /\ IsStr(v[2][i][2])

\* C6: whatever the three external calls do, every stage yields a string and
\* the request ends with a report: a failed extraction gives post_text = "",
\* a failed query call the templated query, a failed answer call (also one
\* that fails after some deltas) compound_answer = "".
C6_DegradeNeverRaise ==
    /\ \A r \in Requests :
          /\ AfterExtract(r) => IsStr(post_text[r])
          /\ AfterQuery(r) => IsStr(query[r])
          /\ pc[r] \in {"persist", "done"} => IsStr(compound_answer[r])
          /\ pc[r] = "done" =>
                /\ IsReport(returned[r])
                /\ DictGet(returned[r], K_post_text) = post_text[r]
                /\ DictGet(returned[r], K_query) = query[r]
                /\ DictGet(returned[r], K_compound_answer) = compound_answer[r]
    /\ (last_call[1] = "extract" /\ ExtractCallFailed(last_call[3])) =>
          post_text[last_call[2]] = EmptyStr
    /\ (last_call[1] = "query" /\ QueryCallFailed(last_call[3])) =>
          query[last_call[2]] = Templated(last_call[2])
    /\ (last_call[1] = "answer" /\ AnswerCallFailed(last_call[3])) =>
          compound_answer[last_call[2]] = EmptyStr

\* C6 happens: with a client, a request whose three calls all failed, the
\* last one after a delta was streamed, returned its report.
C6_Witness ==
    \E r \in Requests :
        /\ has_key
        /\ pc[r] = "done"
        /\ last_call = <<"answer", r, Stream(<<Str(<<"a">>)>>, FALSE)>>
        /\ DictGet(returned[r], K_post_text) = EmptyStr
        /\ DictGet(returned[r], K_query) = Templated(r)
        /\ DictGet(returned[r], K_compound_answer) = EmptyStr
        /\ \E i \in 1..Len(log) : log[i] = <<"valid", returned[r]>>

\* the request's URL is an x.com URL
IsXUrl(r) == pc[r] # "idle" /\ ContainsAnyCase(S_x_com, req[r].url[2])
IsLinkedinUrl(r) == pc[r] # "idle" /\ ContainsAnyCase(S_linkedin_com, req[r].url[2])
BrowserOnly == {"_extract_x_post_with_browser_use"}
KimiOnly == {"_extract_post_with_kimi"}

\* C7 as stated: an x.com URL is classified x and extracted by automation;
\* when that finds nothing, post_text is "" and the query is the template;
\* the report has source x and the request's note.
C7_AsStated ==
    \A r \in Requests : IsXUrl(r) =>
        /\ source[r] = Str(S_x)
        /\ AfterExtract(r) => invoked[r] = BrowserOnly
        /\ (AfterQuery(r) /\ post_text[r] = EmptyStr) => query[r] = Templated(r)
        /\ pc[r] = "done" =>
              /\ DictGet(returned[r], K_source) = Str(S_x)
              /\ DictGet(returned[r], K_user_note) = req[r].note

\* C7, amended: an x.com URL that does not contain "linkedin.com" is
\* classified x and extracted by automation; when that finds nothing,
\* post_text is "", and the query is "n (source: x)" when the query call
\* gives no usable query either; the report has source x and the request's
\* note.
C7_XEndToEnd ==
    \A r \in Requests : (IsXUrl(r) /\ ~IsLinkedinUrl(r)) =>
        /\ source[r] = Str(S_x)
        /\ AfterExtract(r) => invoked[r] = BrowserOnly
        /\ (last_call[1] = "extract" /\ last_call[2] = r
            /\ ExtractCallFailed(last_call[3])) => post_text[r] = EmptyStr
        /\ (QueryJustBuilt /\ last_call[2] = r /\ post_text[r] = EmptyStr
            /\ QueryCallFailed(last_call[3])) =>
              query[r] = Str(req[r].note[2]
                             \o <<" ","(","s","o","u","r","c","e",":"," ","x",")">>)
        /\ pc[r] = "done" =>
              /\ DictGet(returned[r], K_source) = Str(S_x)
              /\ DictGet(returned[r], K_user_note) = req[r].note

\* C7 happens: with a client, automation returned a shapeless result for an
\* x.com URL with note "n", the query call failed too, and the report was
\* returned with the templated query.
C7_Witness ==
    \E r \in Requests :
        /\ has_key
        /\ pc[r] = "done"
        /\ req[r] = [url |-> Str(U_x), note |-> Str(<<"n">>)]
        /\ invoked[r] = BrowserOnly
        /\ DictGet(returned[r], K_source) = Str(S_x)
        /\ DictGet(returned[r], K_post_text) = EmptyStr
        /\ DictGet(returned[r], K_query) =
              Str(<<"n"," ","(","s","o","u","r","c","e",":"," ","x",")">>)

StageOrder == <<"classify", "extract", "query", "answer", "append">>
Completes(r) == pc[r] # "done" /\ pc'[r] = "done"
Records(text) == ParseLines(SplitLines(text))

\* C8: the stages of a request run in the order classify, extract, query,
\* answer, append, each once; the one append comes last, also after an empty
\* extraction; the object returned is the record appended, and its post_url
\* and user_note are the request's url and note.
C8_OneAppendLast ==
    [][ \A r \in Requests :
          /\ stages'[r] = SubSeq(StageOrder, 1, Len(stages'[r]))
          /\ (pc'[r] = "done") = (stages'[r] = StageOrder)
          /\ Len(stages'[r]) >= Len(stages[r])
          /\ Completes(r) =>
                /\ Records(file_text') = Append(Records(file_text), returned'[r])
                /\ DictGet(returned'[r], K_post_url) = req[r].url
                /\ DictGet(returned'[r], K_user_note) = req[r].note
          /\ ~(\E q \in Requests : Completes(q)) => file_text' = file_text
      ]_vars

\* C8 happens: a request whose extraction gave no text went through all five
\* stages and its report is the last record of the file.
C8_Witness ==
    \E r \in Requests :
        /\ pc[r] = "done"
        /\ stages[r] = StageOrder
        /\ post_text[r] = EmptyStr
        /\ last_op = <<"append", returned[r]>>
        /\ DictGet(returned[r], K_post_url) = Str(U_x_linkedin)

IsPrefix(s, t) == Len(s) <= Len(t) /\ SubSeq(t, 1, Len(s)) = s

\* C9: the store is append-only under every interleaving: what the file
\* holds is never changed, a completing request adds exactly one whole line,
\* which holds its report, after the lines already there, no other step and
\* no read changes the file, and the file once created stays.
C9_AppendOnly ==
    [][ /\ IsPrefix(file_text, file_text')
        /\ file_exists => file_exists'
        /\ \A r \in Requests : Completes(r) =>
              /\ Len(SplitLines(file_text')) = Len(SplitLines(file_text)) + 1
              /\ IsPrefix(SplitLines(file_text), SplitLines(file_text'))
              /\ Records(file_text') = Append(Records(file_text), returned'[r])
        /\ ~(\E r \in Requests : Completes(r)) => file_text' = file_text
        /\ IsRead(last_op') /\ last_op' # last_op => file_text' = file_text
      ]_vars

\* C9 happens: while the second request is suspended in the automation, the
\* first request has appended its report after the two lines the file had,
\* and a read has returned both records.
C9_Witness ==
    /\ NumRequests >= 2
    /\ pc[1] = "done"
    /\ pc[2] = "await"
    /\ Len(log) = 3
    /\ log[1] = <<"malformed">>
    /\ log[3] = <<"valid", returned[1]>>
    /\ last_op[1] = "api"
    /\ Len(last_op[3]) = 2
    /\ last_op[3][1] = returned[1]

\* C10: a request calls exactly one extractor: the automation one if and
\* only if its source is x, the completion-call one if and only if its
\* source is linkedin or unknown; the other is never called, also when the
\* one called finds nothing.
C10_OneExtractor ==
    \A r \in Requests :
        /\ pc[r] \in {"idle", "extract"} => invoked[r] = {}
        /\ (AfterExtract(r) \/ pc[r] = "await") =>
              /\ source[r] = Str(S_x) => invoked[r] = BrowserOnly
              /\ source[r] \in {Str(S_linkedin), Str(S_unknown)} =>
                    invoked[r] = KimiOnly
              /\ source[r] \in Sources

\* C10 happens: a request with source x and one with source unknown have
\* both ended with an empty post_text, each having called its extractor only.
C10_Witness ==
    \E r, q \in Requests :
        /\ pc[r] = "done" /\ pc[q] = "done"
        /\ source[r] = Str(S_x) /\ invoked[r] = BrowserOnly
        /\ source[q] = Str(S_unknown) /\ invoked[q] = KimiOnly
        /\ post_text[r] = EmptyStr /\ post_text[q] = EmptyStr
        /\ has_key

(***************************************************************************)
(* Claims about the X extractor (checked under SpecExtract)                *)
(***************************************************************************)
Resolved == text_out # Pending

\* agent.run() returned a result whose string form can be taken
ChainRan == has_key /\ run_in # Raises /\ run_in # None /\ run_in[2].text # Raises

ListOf(v) == IF v[1] = "list" THEN v[2] ELSE <<>>

\* the sub-results: found by iteration, else all_results, else
\* history.all_results
SubResultsOf(res) ==
    LET iterated == IF res.items[1] = "iter" THEN res.items[2] ELSE <<>>
        attr == ListOf(res.all_results)
        nested == IF res.history[1] = "object" THEN ListOf(res.history[2])
                  ELSE <<>>
    IN  IF iterated # <<>> THEN iterated
        ELSE IF attr # <<>> THEN attr
        ELSE nested

IsDone(sub) == sub.is_done = Bool(TRUE)
HasText(sub) == \E k \in 1..Len(DoneFields) : NonBlankStr(sub[DoneFields[k]])

\* strategy 1 finds a text: final_result, called or read, is a non-blank string
Found1(res) ==
    res.final_result[1] \in {"method", "attr"} /\ NonBlankStr(res.final_result[2])

\* strategy 2 finds a text: a sub-result flagged done has one in its fields
Found2(subs) == \E i \in 1..Len(subs) : IsDone(subs[i]) /\ HasText(subs[i])

\* v is the first non-blank field, in the order of DoneFields, of the first
\* sub-result flagged done that has one
Is2(subs, v) ==
    \E i \in 1..Len(subs), k \in 1..Len(DoneFields) :
        /\ IsDone(subs[i])
        /\ NonBlankStr(subs[i][DoneFields[k]])
        /\ v = Stripped(subs[i][DoneFields[k]])
        /\ \A k2 \in 1..(k - 1) : ~NonBlankStr(subs[i][DoneFields[k2]])
        /\ \A i2 \in 1..(i - 1) : ~(IsDone(subs[i2]) /\ HasText(subs[i2]))

\* strategy 3 finds a text: extracted_content of the result itself
Found3(res) == NonBlankStr(res.extracted_content)

\* strategy 4 finds a text: extracted_content of some sub-result
Found4(subs) == \E i \in 1..Len(subs) : NonBlankStr(subs[i].extracted_content)

\* v is the last non-blank extracted_content of the sub-results
Is4(subs, v) ==
    \E i \in 1..Len(subs) :
        /\ NonBlankStr(subs[i].extracted_content)
        /\ v = Stripped(subs[i].extracted_content)
        /\ \A i2 \in (i + 1)..Len(subs) : ~NonBlankStr(subs[i2].extracted_content)

\* the first of strategies 1 to 4 that finds a text determines v
ChainOf(res, v) ==
    LET subs == SubResultsOf(res) IN
    /\ Found1(res) => v = Stripped(res.final_result[2])
    /\ (~Found1(res) /\ Found2(subs)) => Is2(subs, v)
    /\ (~Found1(res) /\ ~Found2(subs) /\ Found3(res)) =>
          v = Stripped(res.extracted_content)
    /\ (~Found1(res) /\ ~Found2(subs) /\ ~Found3(res) /\ Found4(subs)) =>
          Is4(subs, v)

NoneFound(res) ==
    /\ ~Found1(res) /\ ~Found2(SubResultsOf(res))
    /\ ~Found3(res) /\ ~Found4(SubResultsOf(res))

\* what stands between extracted_content=' and the next quote, anywhere in s
Captures(s) == {SubSeq(s, m[2], m[3] - 1) : m \in FieldMatches(s, 1)}
HasDoneMarker(s) == \E i \in 1..Len(s) : StartsAt(s, i, S_done_result)

\* C11 as stated: the first strategy that finds a non-blank string determines
\* the returned text; the extractor returns None when no strategy finds one
\* and when anything raises, a raising final_result() included.
C11_AsStated ==
    Resolved =>
        /\ ~has_key => text_out = None
        /\ (has_key /\ (run_in = Raises \/ run_in[2].text = Raises
                        \/ run_in[2].final_result = <<"method_raises">>)) =>
              text_out = None
        /\ ChainRan => ChainOf(run_in[2], text_out)
        /\ text_out = None \/ NonBlankStr(text_out)

\* C11, amended: strategies 1 to 4 in the stated order, the first that finds
\* a non-blank string giving the stripped text; a raise in final_result() or
\* in the iteration is passed over and resolution goes on; when strategies 1
\* to 4 find nothing the string form decides: None when it holds no
\* extracted_content='...', else the stripped capture after a done
\* ActionResult (which may be empty), else the last capture unless it is
\* blank or starts with "Waited for"; None without a key and when agent.run()
\* or taking the string form raises.
C11_PriorityChain ==
    Resolved =>
        /\ ~has_key => text_out = None
        /\ (has_key /\ (run_in = Raises \/ run_in[2].text = Raises)) =>
              text_out = None
        /\ ChainRan =>
              LET res == run_in[2] IN
              /\ ChainOf(res, text_out)
              /\ ~NoneFound(res) => NonBlankStr(text_out)
              /\ NoneFound(res) =>
                    /\ \/ text_out = None
                       \/ \E c \in Captures(res.text) : text_out = Str(Strip(c))
                    /\ text_out = EmptyStr => HasDoneMarker(res.text)
                    /\ (text_out # None /\ ~HasDoneMarker(res.text)) =>
                          /\ NonBlankStr(text_out)
                          /\ ~StartsAt(text_out[2], 1, S_waited_for)
                    /\ res.text = T_shapeless => text_out = None
                    /\ res.text = T_done => text_out = Str(<<"p">>)
                    /\ res.text = T_any => text_out = Str(<<"z">>)
                    /\ res.text = T_waited => text_out = None
                    /\ res.text = T_blank => text_out = EmptyStr

\* C11 happens: final_result() raised, the iterated sub-results hold a step
\* with extracted_content and a done one without text, the result has its own
\* extracted_content and its string form a done ActionResult: the result's
\* own extracted_content is returned.
C11_Witness ==
    /\ Resolved
    /\ ChainRan
    /\ run_in[2].final_result = <<"method_raises">>
    /\ run_in[2].items = <<"iter", <<SR_step, SR_done_none>> >>
    /\ run_in[2].extracted_content = Str(<<" ","o"," ">>)
    /\ run_in[2].text = T_done
    /\ text_out = Str(<<"o">>)

====
